---- MODULE Spec2Model ----
(***************************************************************************)
(* A model of the colour-analysis core of google-sheet-color-analyzer:     *)
(* src/src/analyzer.py (class ImageAnalyzer) and the colour-table lookup   *)
(* of src/src/utils.py.                                                    *)
(*                                                                         *)
(* Conventions                                                             *)
(*  - A colour is a triple of integers; a colour name is the sequence of   *)
(*    its katakana characters, each written in ASCII (re-xtu-do is the     *)
(*    three characters of the name the source spells "reddo"), so that     *)
(*    Python's  kw in color_name  is a real substring test.                *)
(*  - A distance is the float  sqrt(q4)/2 + pen  kept exactly as the       *)
(*    record [inf, q4, pen]: q4 is four times the squared channel-weighted *)
(*    distance (1.5 = 3/2, so q4 is an integer) and pen is the penalty     *)
(*    added after the square root.  Two such floats compare as the reals   *)
(*    they round: distinct values of this form differ by far more than a   *)
(*    double's rounding error for 8-bit channels.                          *)
(*  - Python's None category is the string "None".                         *)
(***************************************************************************)
EXTENDS Integers, Sequences, FiniteSets, TLC

VARIABLES
    REMBG_AVAILABLE,  \* module flag: the rembg import succeeded
    config,           \* the configuration handed to the constructor
    use_rembg,        \* self.use_rembg
    pc,               \* position: "new", "ready", or a stage of analyze
    img,              \* the image of the analyze call in progress
    filtered,         \* the filtered pixel sample (a sequence of colours)
    rgb_final,        \* the dominant colour handed to the matcher
    best_cat,         \* what match_color_to_category returned in analyze
    result,           \* what analyze returned
    path,             \* the stages the analyze call in progress went through
    remove_called,    \* rembg's remove() has been invoked on this analyzer
    call,             \* the last direct call of a pure method, with its result
    sheet             \* SheetManager.process_products: the sheets and its locals

analyzerVars == <<REMBG_AVAILABLE, config, use_rembg, pc, img, filtered,
                  rgb_final, best_cat, result, path, remove_called, call>>

vars == <<analyzerVars, sheet>>

(***************************************************************************)
(* Bounds of the model.                                                    *)
(***************************************************************************)
MaxSide == 4

(***************************************************************************)
(* Colour names, character by character.                                   *)
(***************************************************************************)
Reddo        == <<"re", "xtu", "do">>
WainReddo    == <<"wa", "i", "n", "re", "xtu", "do">>
Baagandi     == <<"ba", "-", "ga", "n", "de", "xi">>
Pinku        == <<"pi", "n", "ku">>
Roozu        == <<"ro", "-", "zu">>
Fukushia     == <<"fu", "ku", "shi", "a">>
Burakku      == <<"bu", "ra", "xtu", "ku">>
Chakooru     == <<"chi", "xya", "ko", "-", "ru">>
Sumooku      == <<"su", "mo", "-", "ku">>
Guree        == <<"gu", "re", "-">>
RaitoGuree   == <<"ra", "i", "to", "gu", "re", "-">>
Shirubaa     == <<"shi", "ru", "ba", "-">>
Buruu        == <<"bu", "ru", "-">>
PinkuGuree   == <<"pi", "n", "ku", "gu", "re", "-">>

red_keywords  == <<Reddo, WainReddo, Baagandi, Pinku, Roozu, Fukushia>>
gray_keywords == <<Burakku, Chakooru, Sumooku, Guree, RaitoGuree, Shirubaa>>

\* Python's  kw in color_name  on strings: kw is a contiguous substring.
Contains(kw, color_name) ==
    \E i \in 0..(Len(color_name) - Len(kw)) :
        \A j \in 1..Len(kw) : color_name[i + j] = kw[j]

AnyKeyword(keywords, color_name) ==
    \E k \in 1..Len(keywords) : Contains(keywords[k], color_name)

(***************************************************************************)
(* utils.get_rgb_from_color_name                                           *)
(***************************************************************************)
DefaultGray == <<128, 128, 128>>

get_rgb_from_color_name(color_name, cfg) ==
    LET color_defs == cfg.color_definitions
    IN  IF color_name \in DOMAIN color_defs /\ color_defs[color_name] # <<>>
        THEN color_defs[color_name]
        ELSE DefaultGray

(***************************************************************************)
(* cv2.cvtColor(bgr, COLOR_BGR2HSV) on one 8-bit pixel, S and V only:      *)
(* V = max, S = (diff * sdiv_table[V] + 2^11) >> 12 with                   *)
(* sdiv_table[V] = round(255 * 2^12 / V), sdiv_table[0] = 0.               *)
(***************************************************************************)
Max3(a, b, c) == IF a >= b /\ a >= c THEN a ELSE IF b >= c THEN b ELSE c
Min3(a, b, c) == IF a <= b /\ a <= c THEN a ELSE IF b <= c THEN b ELSE c

sdiv_table(v) == IF v = 0 THEN 0 ELSE (2 * (255 * 4096) + v) \div (2 * v)

HsvValue(rgb) == Max3(rgb[1], rgb[2], rgb[3])

HsvSaturation(rgb) ==
    LET v    == HsvValue(rgb)
        diff == v - Min3(rgb[1], rgb[2], rgb[3])
    IN  (diff * sdiv_table(v) + 2048) \div 4096

(***************************************************************************)
(* ImageAnalyzer.compute_weighted_distance                                 *)
(***************************************************************************)
SatThreshold == 70
ValThreshold == 80
GrayPenalty  == 30

\* twice the red weight wR: 3 for a warm name (wR = 1.5), 2 otherwise
RedWeight2MutDouble(color_name) ==
    IF AnyKeyword(red_keywords, color_name) THEN 4 ELSE 2

RedWeight2(color_name) ==
    IF AnyKeyword(red_keywords, color_name) THEN 3 ELSE 2

PenaltyAppliesMutOr(rgb, color_name) ==
    /\ (HsvSaturation(rgb) > SatThreshold \/ HsvValue(rgb) > ValThreshold)
    /\ AnyKeyword(gray_keywords, color_name)

PenaltyApplies(rgb, color_name) ==
    /\ HsvSaturation(rgb) > SatThreshold
    /\ HsvValue(rgb) > ValThreshold
    /\ AnyKeyword(gray_keywords, color_name)

compute_weighted_distanceMutRefOrder(rgb, ref, color_name) ==
    LET dr2 == (rgb[1] - ref[3]) * RedWeight2(color_name)
        dg2 == (rgb[2] - ref[2]) * 2
        db2 == (rgb[3] - ref[1]) * 2
    IN  [inf |-> FALSE,
         q4  |-> dr2 * dr2 + dg2 * dg2 + db2 * db2,
         pen |-> IF PenaltyApplies(rgb, color_name) THEN GrayPenalty ELSE 0]

compute_weighted_distance(rgb, ref, color_name) ==
    LET dr2 == (rgb[1] - ref[1]) * RedWeight2(color_name)
        dg2 == (rgb[2] - ref[2]) * 2
        db2 == (rgb[3] - ref[3]) * 2
    IN  [inf |-> FALSE,
         q4  |-> dr2 * dr2 + dg2 * dg2 + db2 * db2,
         pen |-> IF PenaltyApplies(rgb, color_name) THEN GrayPenalty ELSE 0]

Inf == [inf |-> TRUE, q4 |-> 0, pen |-> 0]

(***************************************************************************)
(* Python's  dist < min_dist  on the floats sqrt(q4)/2 + pen, decided in   *)
(* integers.  With P2 = 2 * GrayPenalty:                                   *)
(*   GtScaledSqrt(n, q)  is  n > P2 * sqrt(q)                              *)
(*   GeScaledSqrt(n, q)  is  n >= P2 * sqrt(q)                             *)
(* (n = P2*a + b; n^2 against P2^2 * q without leaving 32 bits).           *)
(***************************************************************************)
P2 == 2 * GrayPenalty

GtScaledSqrt(n, q) ==
    /\ n > 0
    /\ LET a == n \div P2
           b == n % P2
           x == 2 * P2 * a * b + b * b
       IN  q - a * a <= (x - 1) \div (P2 * P2)

GeScaledSqrt(n, q) ==
    /\ n >= 0
    /\ LET a == n \div P2
           b == n % P2
           x == 2 * P2 * a * b + b * b
       IN  q - a * a <= x \div (P2 * P2)

DistLess(d1, d2) ==
    IF d1.inf THEN FALSE
    ELSE IF d2.inf THEN TRUE
    ELSE IF d1.pen = d2.pen THEN d1.q4 < d2.q4
    ELSE IF d1.pen > d2.pen
         THEN GtScaledSqrt(d2.q4 - d1.q4 - P2 * P2, d1.q4)
         ELSE ~GeScaledSqrt(d1.q4 - d2.q4 - P2 * P2, d2.q4)

CloserMutLeq(dist, min_dist) == ~DistLess(min_dist, dist)

\* the comparison of line 73, dist < min_dist
Closer(dist, min_dist) == DistLess(dist, min_dist)

(***************************************************************************)
(* ImageAnalyzer.match_color_to_category                                   *)
(* color_categories is the ordered table <<[cat, cid, synonyms], ...>>;    *)
(* Pairs is the order in which the two nested loops visit (cat, cname).    *)
(***************************************************************************)
RECURSIVE Pairs(_)
Pairs(color_categories) ==
    IF color_categories = <<>> THEN <<>>
    ELSE LET e == Head(color_categories)
         IN  [k \in 1..Len(e.synonyms) |-> [cat |-> e.cat, cname |-> e.synonyms[k]]]
             \o Pairs(Tail(color_categories))

RECURSIVE MatchLoop(_, _, _, _, _)
MatchLoop(pairs, rgb_color, cfg, min_dist, cat) ==
    IF pairs = <<>> THEN cat
    ELSE LET p       == Head(pairs)
             ref_rgb == get_rgb_from_color_name(p.cname, cfg)
             dist    == compute_weighted_distance(rgb_color, ref_rgb, p.cname)
         IN  IF Closer(dist, min_dist)
             THEN MatchLoop(Tail(pairs), rgb_color, cfg, dist, p.cat)
             ELSE MatchLoop(Tail(pairs), rgb_color, cfg, min_dist, cat)

match_color_to_category(rgb_color, cfg) ==
    MatchLoop(Pairs(cfg.color_categories), rgb_color, cfg, Inf, "None")

(***************************************************************************)
(* Images.  A decoded image is a view of h x w pixels onto a two-colour    *)
(* source picture of sh x sw pixels: the pixels before the split point     *)
(* (r0, c0), in row-major order, have colour a and the others colour b.    *)
(* cv2.resize changes the view (nearest-neighbour sampling of the source;  *)
(* a uniform picture stays uniform under any interpolation).  a and b are  *)
(* stored in the channel order named by `order`; truth_a and truth_b keep  *)
(* the picture's colours as (R, G, B) and are touched by no operation;     *)
(* swaps counts the channel-order conversions applied so far.              *)
(***************************************************************************)
Red     == <<255, 0, 0>>
Blue    == <<0, 0, 255>>
Gray128 == <<128, 128, 128>>
White   == <<255, 255, 255>>
Black   == <<0, 0, 0>>
Lo60    == <<20, 20, 20>>      \* mean brightness exactly 20
Lo61    == <<20, 20, 21>>      \* mean brightness just above 20
Hi690   == <<230, 230, 230>>   \* mean brightness exactly 230

NoImg == [present |-> FALSE, h |-> 0, w |-> 0, sh |-> 0, sw |-> 0,
          a |-> Black, b |-> Black, r0 |-> 0, c0 |-> 0,
          order |-> "BGR", swaps |-> 0, truth_a |-> Black, truth_b |-> Black]

Rev(px) == <<px[3], px[2], px[1]>>

\* cv2.imdecode(arr, cv2.IMREAD_COLOR): the picture as BGR triples
Decode(h, w, ta, tb, r0, c0) ==
    [present |-> TRUE, h |-> h, w |-> w, sh |-> h, sw |-> w,
     a |-> Rev(ta), b |-> Rev(tb), r0 |-> r0, c0 |-> c0,
     order |-> "BGR", swaps |-> 0, truth_a |-> ta, truth_b |-> tb]

Pixel(image, r, c) ==
    LET sr == (r * image.sh) \div image.h
        sc == (c * image.sw) \div image.w
    IN  IF sr < image.r0 \/ (sr = image.r0 /\ sc < image.c0)
        THEN image.a ELSE image.b

\* cv2.resize(img, (w, h))
Resize(image, w, h) == [image EXCEPT !.h = h, !.w = w]

\* cv2.cvtColor(img, cv2.COLOR_BGR2RGB): swaps channels 0 and 2 of every pixel
cvtColor(image) ==
    [image EXCEPT !.a = Rev(image.a), !.b = Rev(image.b),
                  !.order = IF image.order = "BGR" THEN "RGB" ELSE "BGR",
                  !.swaps = image.swaps + 1]

\* the pixels of a rectangle of the image, row by row (reshape(-1, 3))
RegionPixels(image, top, left, rows, cols) ==
    [k \in 1..(rows * cols) |->
        Pixel(image, top + ((k - 1) \div cols), left + ((k - 1) % cols))]

(***************************************************************************)
(* config.get(key, default) on the "analysis" section                      *)
(***************************************************************************)
Get(d, key, default) == IF key \in DOMAIN d THEN d[key] ELSE default

analysis_config(cfg) == cfg.analysis

DefaultPixelFilterMin == 20
DefaultPixelFilterMax == 230
DefaultKmeansK        == 3
margin                == 30
SizeCap               == 500
AlphaThreshold        == 10
MinPixels             == 10

(***************************************************************************)
(* ImageAnalyzer.__init__: the value given to self.use_rembg               *)
(***************************************************************************)
InitUseRembgMutNoFallback(cfg, available) ==
    Get(analysis_config(cfg), "use_rembg", FALSE)

InitUseRembg(cfg, available) ==
    LET configured == Get(analysis_config(cfg), "use_rembg", FALSE)
    IN  IF configured /\ ~available THEN FALSE ELSE configured

(***************************************************************************)
(* ImageAnalyzer.download_image.  resp is what the network and the decoder *)
(* do: requests.get raises (timeout, transport), raise_for_status raises   *)
(* (non-2xx), cv2.imdecode returns None (undecodable bytes) or the image.  *)
(* The result says whether an exception left the method and what value    *)
(* it returned.                                                            *)
(***************************************************************************)
download_imageMutNoCatch(resp) ==
    IF resp.kind \in {"timeout", "http_error"}
    THEN [raised |-> TRUE, value |-> NoImg]
    ELSE IF resp.kind = "undecodable"
         THEN [raised |-> FALSE, value |-> NoImg]
         ELSE [raised |-> FALSE, value |-> resp.image]

download_image(resp) ==
    IF resp.kind \in {"timeout", "http_error"}
    THEN [raised |-> FALSE, value |-> NoImg]           \* except Exception: return None
    ELSE IF resp.kind = "undecodable"
         THEN [raised |-> FALSE, value |-> NoImg]      \* imdecode returned None
         ELSE [raised |-> FALSE, value |-> resp.image]

(***************************************************************************)
(* ImageAnalyzer.remove_background.  seg is what rembg's remove() does on  *)
(* the converted image: it raises, or it returns the picture with an alpha *)
(* channel, here alpha = seg.alpha on the first seg.opaque pixels (row by  *)
(* row) of the rectangle (top, left, rows, cols) and 0 elsewhere.          *)
(***************************************************************************)
NoOutput == [present |-> FALSE, image |-> NoImg, top |-> 0, left |-> 0,
             rows |-> 0, cols |-> 0, opaque |-> 0, alpha |-> 0]

remove_backgroundMutNoConvert(image, seg) ==
    IF seg.raises THEN NoOutput
    ELSE [present |-> TRUE, image |-> image,
          top |-> seg.top, left |-> seg.left, rows |-> seg.rows,
          cols |-> seg.cols, opaque |-> seg.opaque, alpha |-> seg.alpha]

remove_background(image, seg) ==
    LET img_rgb == cvtColor(image)
    IN  IF seg.raises THEN NoOutput                    \* except Exception: return None
        ELSE [present |-> TRUE, image |-> img_rgb,
              top |-> seg.top, left |-> seg.left, rows |-> seg.rows,
              cols |-> seg.cols, opaque |-> seg.opaque, alpha |-> seg.alpha]

\* flat[flat[:, 3] > 10][:, :3]
ValidPixels(output_rgba) ==
    IF output_rgba.alpha > AlphaThreshold
    THEN SubSeq(RegionPixels(output_rgba.image, output_rgba.top, output_rgba.left,
                             output_rgba.rows, output_rgba.cols),
                1, output_rgba.opaque)
    ELSE <<>>

\* lines 114-116: the size cap of the foreground-mask mode
CapSize(image) ==
    IF image.h > SizeCap \/ image.w > SizeCap
    THEN Resize(image, SizeCap, SizeCap) ELSE image

\* lines 118-152: the sample of the foreground-mask mode
RembgSample(output_rgba) ==
    IF output_rgba.present
    THEN (IF Len(ValidPixels(output_rgba)) > 0
          THEN ValidPixels(output_rgba) ELSE <<>>)
    ELSE <<>>

(***************************************************************************)
(* The standard flow, lines 155-186                                        *)
(***************************************************************************)
\* lines 156-165: the central rectangle as [top, left, rows, cols]
Center(resized) ==
    LET h == resized.h
        w == resized.w
        c == IF h > 2 * margin /\ w > 2 * margin
             THEN [top |-> margin, left |-> margin,
                   rows |-> h - 2 * margin, cols |-> w - 2 * margin]
             ELSE [top |-> 0, left |-> 0, rows |-> h, cols |-> w]
    IN  IF c.rows * c.cols = 0
        THEN [top |-> 0, left |-> 0, rows |-> h, cols |-> w]
        ELSE c

\* np.mean(p) of a uint8 triple is (R+G+B)/3 in float64; against integer
\* thresholds  p_min < avg < p_max  is  3*p_min < R+G+B < 3*p_max
KeepsMutInclusive(p, p_min, p_max) ==
    3 * p_min <= p[1] + p[2] + p[3] /\ p[1] + p[2] + p[3] <= 3 * p_max

Keeps(p, p_min, p_max) ==
    3 * p_min < p[1] + p[2] + p[3] /\ p[1] + p[2] + p[3] < 3 * p_max

BrightnessFilter(pix, cfg) ==
    LET p_min == Get(analysis_config(cfg), "pixel_filter_min", DefaultPixelFilterMin)
        p_max == Get(analysis_config(cfg), "pixel_filter_max", DefaultPixelFilterMax)
    IN  SelectSeq(pix, LAMBDA p : Keeps(p, p_min, p_max))

StandardCenter(image, cfg) ==
    LET resized == Resize(image, analysis_config(cfg).resize_width,
                                 analysis_config(cfg).resize_height)
    IN  Center(resized)

StandardImage(image, cfg) ==
    cvtColor(Resize(image, analysis_config(cfg).resize_width,
                           analysis_config(cfg).resize_height))

StandardSample(image, cfg) ==
    LET c          == StandardCenter(image, cfg)
        center_rgb == StandardImage(image, cfg)
        pix        == RegionPixels(center_rgb, c.top, c.left, c.rows, c.cols)
    IN  BrightnessFilter(pix, cfg)

\* line 188
TooFewMutOffByOne(sample) == Len(sample) <= MinPixels

TooFew(sample) == Len(sample) < MinPixels

(***************************************************************************)
(* cv2.kmeans followed by bincount/argmax, lines 198-204.  kmeans raises   *)
(* when K < 1 or K exceeds the number of samples.  Otherwise every centre  *)
(* it returns is the mean of a non-empty group of samples (for K = 1, of   *)
(* all of them); which group is the most populous depends on the random    *)
(* initial centres, so the dominant colour is any of those means, with     *)
(* int() truncating each float component (the float32 mean of up to 26     *)
(* 8-bit values truncates to the floor of the exact mean).                 *)
(***************************************************************************)
SampleValues(sample) == {sample[i] : i \in 1..Len(sample)}

Count(sample, v) == Cardinality({i \in 1..Len(sample) : sample[i] = v})

Whole(sample) == [v \in SampleValues(sample) |-> Count(sample, v)]

Groups(sample) ==
    {g \in [SampleValues(sample) -> 0..Len(sample)] :
        /\ \A v \in SampleValues(sample) : g[v] <= Count(sample, v)
        /\ \E v \in SampleValues(sample) : g[v] > 0}

RECURSIVE WeightedSum(_, _, _)
WeightedSum(g, S, ch) ==
    IF S = {} THEN 0
    ELSE LET v == CHOOSE x \in S : TRUE
         IN  g[v] * (IF ch = 0 THEN 1 ELSE v[ch]) + WeightedSum(g, S \ {v}, ch)

Centroid(g) ==
    LET n == WeightedSum(g, DOMAIN g, 0)
    IN  <<WeightedSum(g, DOMAIN g, 1) \div n,
          WeightedSum(g, DOMAIN g, 2) \div n,
          WeightedSum(g, DOMAIN g, 3) \div n>>

DominantColors(sample, K) ==
    IF K < 1 \/ K > Len(sample)
    THEN {[raised |-> TRUE, dom |-> Black]}
    ELSE {[raised |-> FALSE, dom |-> Centroid(g)] :
             g \in (IF K = 1 THEN {Whole(sample)} ELSE Groups(sample))}

(***************************************************************************)
(* The value analyze returns                                               *)
(***************************************************************************)
Pending  == [kind |-> "pending", cid |-> 0]
NA       == [kind |-> "N/A", cid |-> 0]
Id(cid)  == [kind |-> "=id", cid |-> cid]

cat_id(cfg, cat) ==
    LET t == cfg.color_categories
    IN  t[CHOOSE i \in 1..Len(t) : t[i].cat = cat].cid

\* lines 207-211
MatchResult(cfg, cat) ==
    IF cat = "None" \/ cat = "" THEN NA ELSE Id(cat_id(cfg, cat))

(***************************************************************************)
(* Inputs: configurations, responses of the network, outcomes of rembg     *)
(***************************************************************************)
ColorDefinitions ==
    (Reddo :> Red) @@ (Buruu :> Blue) @@ (Burakku :> Black) @@
    (WainReddo :> <<128, 0, 32>>) @@ (RaitoGuree :> <<211, 211, 211>>)
    \* Guree and Shirubaa have no entry: both fall back to (128,128,128)

\* the table of tests/test_analyzer.py
TableTest ==
    << [cat |-> "Red-kei",  cid |-> 4, synonyms |-> <<Reddo>>],
       [cat |-> "Blue-kei", cid |-> 5, synonyms |-> <<Buruu>>] >>

TableFull ==
    << [cat |-> "Black-kei",  cid |-> 1, synonyms |-> <<Burakku, Guree>>],
       [cat |-> "Red-kei",    cid |-> 4, synonyms |-> <<Reddo, WainReddo>>],
       [cat |-> "Silver-kei", cid |-> 3, synonyms |-> <<Shirubaa, RaitoGuree>>],
       [cat |-> "Blue-kei",   cid |-> 5, synonyms |-> <<Buruu>>] >>

TableFullRev == [i \in 1..Len(TableFull) |-> TableFull[Len(TableFull) + 1 - i]]

TableEmpty == <<>>

TableNoSynonyms == << [cat |-> "Red-kei", cid |-> 4, synonyms |-> <<>>] >>

Tables == {TableEmpty, TableNoSynonyms, TableFull}

Sides == {MaxSide - 1, MaxSide}

\* <<resize_width, resize_height>>: too small for the margin, or leaving a
\* central rectangle of at most MaxSide x MaxSide
SidePairs == {d \in Sides \X Sides : d[1] <= d[2]}

ResizeDims ==
    SidePairs \cup {<<2 * margin + d[1], 2 * margin + d[2]>> : d \in SidePairs}

Absent == [x \in {} |-> 0]
Opt(key, values) == {Absent} \cup {key :> v : v \in values}

\* resize_width and resize_height are always given; use_rembg, kmeans_k and
\* pixel_filter_max are given or left to their defaults
AnalysisConfigs ==
    {[resize_width |-> d[1], resize_height |-> d[2]] @@ u @@ o :
        d \in ResizeDims,
        u \in Opt("use_rembg", {TRUE}),
        o \in Opt("kmeans_k", {MinPixels + 1}) \cup Opt("pixel_filter_max", {256})}

Configs ==
    {[color_categories |-> t, color_definitions |-> ColorDefinitions, analysis |-> a] :
        t \in Tables, a \in AnalysisConfigs}

\* where the interesting part of an h x w picture starts
Origin(h, w) == IF h > 2 * margin /\ w > 2 * margin THEN margin ELSE 0
Side(x) == IF x > MaxSide THEN (IF x > 2 * margin /\ x - 2 * margin <= MaxSide
                                THEN x - 2 * margin ELSE MaxSide)
           ELSE x

Palette == {Red, Gray128, White, Lo60, Lo61, Hi690}
TwoTone == {<<White, Red>>, <<Lo60, Gray128>>, <<Gray128, Red>>}

Pictures(cfg) ==
    LET h == analysis_config(cfg).resize_height
        w == analysis_config(cfg).resize_width
        o == Origin(h, w)
    IN  {Decode(h, w, c, c, 0, 0) : c \in Palette}
        \cup {Decode(SizeCap + 100, SizeCap + 100, c, c, 0, 0) : c \in {Red, White}}
        \cup {Decode(h, w, t[1], t[2], r0, c0) :
                t \in TwoTone,
                r0 \in o..(o + Side(h) - 1),
                c0 \in o..(o + Side(w) - 1)}

Responses(cfg) ==
    {[kind |-> k, image |-> NoImg] : k \in {"timeout", "http_error", "undecodable"}}
    \cup {[kind |-> "image", image |-> i] : i \in Pictures(cfg)}

Segmentations(image) ==
    LET o == Origin(image.h, image.w)
        n == Side(image.h) * Side(image.w)
    IN  {[raises |-> TRUE, top |-> 0, left |-> 0, rows |-> 0, cols |-> 0,
          opaque |-> 0, alpha |-> 0]}
        \cup {[raises |-> FALSE, top |-> o, left |-> o, rows |-> Side(image.h),
               cols |-> Side(image.w), opaque |-> k, alpha |-> a] :
                k \in {MinPixels - 1, MinPixels, n} \cap (0..n),
                a \in {AlphaThreshold, AlphaThreshold + 1}}

NoCall == [op |-> "none", rgb |-> Black, ref |-> Black, name |-> <<>>,
           dist |-> Inf, cat |-> "None"]

\* no run of process_products
NoSheet == [pc |-> "none", headers |-> <<>>, rows |-> <<>>, mapping |-> <<>>,
            i |-> 0, updated_values |-> <<>>, pending_colors |-> {},
            analyzed |-> {}, range |-> <<0, 0>>, written |-> <<>>,
            appended |-> {}]

(***************************************************************************)
(* The state machine                                                       *)
(***************************************************************************)
Init ==
    /\ REMBG_AVAILABLE \in BOOLEAN
    /\ config \in Configs
    /\ use_rembg = FALSE
    /\ pc = "new"
    /\ img = NoImg
    /\ filtered = <<>>
    /\ rgb_final = Black
    /\ best_cat = "None"
    /\ result = Pending
    /\ path = <<>>
    /\ remove_called = FALSE
    /\ call = NoCall
    /\ sheet = NoSheet

\* ImageAnalyzer.__init__ (no check of the category table is made)
Construct ==
    /\ UNCHANGED sheet
    /\ pc = "new"
    /\ use_rembg' = InitUseRembg(config, REMBG_AVAILABLE)
    /\ pc' = "ready"
    /\ UNCHANGED <<REMBG_AVAILABLE, config, img, filtered, rgb_final, best_cat,
                   result, path, remove_called, call>>

\* analyze, lines 98-100: download_image and the None test
Download ==
    /\ UNCHANGED sheet
    /\ pc = "ready"
    /\ \E resp \in Responses(config) :
         LET r == download_image(resp)
         IN  /\ img' = r.value
             /\ path' = <<"download">>
             /\ IF r.raised
                THEN pc' = "raised" /\ result' = Pending
                ELSE IF ~r.value.present
                     THEN pc' = "returned" /\ result' = NA
                     ELSE pc' = "fetched" /\ result' = Pending
    /\ UNCHANGED <<REMBG_AVAILABLE, config, use_rembg, filtered, rgb_final,
                   best_cat, remove_called, call>>

\* analyze, lines 106-152: the foreground-mask mode
PreprocessRembg ==
    /\ UNCHANGED sheet
    /\ pc = "fetched"
    /\ use_rembg
    /\ \E seg \in Segmentations(CapSize(img)) :
         LET output_rgba == remove_background(CapSize(img), seg)
         IN  /\ img' = IF output_rgba.present THEN output_rgba.image ELSE CapSize(img)
             /\ filtered' = RembgSample(output_rgba)
    /\ remove_called' = TRUE
    /\ path' = Append(path, "rembg")
    /\ pc' = "preprocessed"
    /\ UNCHANGED <<REMBG_AVAILABLE, config, use_rembg, rgb_final, best_cat,
                   result, call>>

\* analyze, lines 153-186: the standard flow
PreprocessStandard ==
    /\ UNCHANGED sheet
    /\ pc = "fetched"
    /\ ~use_rembg
    /\ img' = StandardImage(img, config)
    /\ filtered' = StandardSample(img, config)
    /\ path' = Append(path, "standard")
    /\ pc' = "preprocessed"
    /\ UNCHANGED <<REMBG_AVAILABLE, config, use_rembg, rgb_final, best_cat,
                   result, remove_called, call>>

\* analyze, lines 188-189
CheckSample ==
    /\ UNCHANGED sheet
    /\ pc = "preprocessed"
    /\ IF TooFew(filtered)
       THEN pc' = "returned" /\ result' = NA
       ELSE pc' = "clustering" /\ result' = Pending
    /\ UNCHANGED <<REMBG_AVAILABLE, config, use_rembg, img, filtered, rgb_final,
                   best_cat, path, remove_called, call>>

\* analyze, lines 192-204 and the handler of lines 213-215
Cluster ==
    /\ UNCHANGED sheet
    /\ pc = "clustering"
    /\ \E o \in DominantColors(filtered,
                   Get(analysis_config(config), "kmeans_k", DefaultKmeansK)) :
         IF o.raised
         THEN /\ pc' = "returned"
              /\ result' = NA
              /\ UNCHANGED rgb_final
         ELSE /\ pc' = "matching"
              /\ rgb_final' = o.dom
              /\ UNCHANGED result
    /\ path' = Append(path, "kmeans")
    /\ UNCHANGED <<REMBG_AVAILABLE, config, use_rembg, img, filtered, best_cat,
                   remove_called, call>>

\* analyze, lines 206-211
Match ==
    /\ UNCHANGED sheet
    /\ pc = "matching"
    /\ best_cat' = match_color_to_category(rgb_final, config)
    /\ result' = MatchResult(config, best_cat')
    /\ pc' = "returned"
    /\ path' = Append(path, "match")
    /\ UNCHANGED <<REMBG_AVAILABLE, config, use_rembg, img, filtered, rgb_final,
                   remove_called, call>>

\* the caller takes the result; the analyzer is ready for the next call
Return ==
    /\ UNCHANGED sheet
    /\ pc = "returned"
    /\ pc' = "ready"
    /\ img' = NoImg
    /\ filtered' = <<>>
    /\ rgb_final' = Black
    /\ best_cat' = "None"
    /\ result' = Pending
    /\ path' = <<>>
    /\ UNCHANGED <<REMBG_AVAILABLE, config, use_rembg, remove_called, call>>

Next ==
    \/ Construct
    \/ Download
    \/ PreprocessRembg
    \/ PreprocessStandard
    \/ CheckSample
    \/ Cluster
    \/ Match
    \/ Return

Spec == Init /\ [][Next]_vars

(***************************************************************************)
(* Direct calls of the two pure methods on a constructed analyzer, as      *)
(* tests/test_analyzer.py makes them.                                      *)
(***************************************************************************)
UnitPixels ==
    {Red, Blue, Gray128, Black,
     <<245, 0, 0>>, <<250, 10, 10>>,
     <<255, 185, 185>>,      \* S = 70, V = 255
     <<255, 184, 184>>,      \* S = 71, V = 255
     <<80, 0, 0>>,           \* S = 255, V = 80
     <<81, 0, 0>>}           \* S = 255, V = 81

UnitNames == {Reddo, WainReddo, Buruu, Burakku, RaitoGuree, PinkuGuree}

UnitConfigs ==
    {[color_categories |-> t, color_definitions |-> ColorDefinitions,
      analysis |-> [resize_width |-> MaxSide, resize_height |-> MaxSide]] :
        t \in Tables \cup {TableTest, TableFullRev}}

InitUnit ==
    /\ REMBG_AVAILABLE \in BOOLEAN
    /\ config \in UnitConfigs
    /\ use_rembg = FALSE
    /\ pc = "new"
    /\ img = NoImg
    /\ filtered = <<>>
    /\ rgb_final = Black
    /\ best_cat = "None"
    /\ result = Pending
    /\ path = <<>>
    /\ remove_called = FALSE
    /\ call = NoCall
    /\ sheet = NoSheet

CallDistance ==
    /\ UNCHANGED sheet
    /\ pc = "ready"
    /\ \E rgb \in UnitPixels, ref \in UnitPixels, name \in UnitNames :
         call' = [op |-> "compute_weighted_distance", rgb |-> rgb, ref |-> ref,
                  name |-> name,
                  dist |-> compute_weighted_distance(rgb, ref, name),
                  cat |-> "None"]
    /\ UNCHANGED <<REMBG_AVAILABLE, config, use_rembg, pc, img, filtered,
                   rgb_final, best_cat, result, path, remove_called>>

CallMatch ==
    /\ UNCHANGED sheet
    /\ pc = "ready"
    /\ \E rgb \in UnitPixels :
         call' = [op |-> "match_color_to_category", rgb |-> rgb, ref |-> Black,
                  name |-> <<>>, dist |-> Inf,
                  cat |-> match_color_to_category(rgb, config)]
    /\ UNCHANGED <<REMBG_AVAILABLE, config, use_rembg, pc, img, filtered,
                   rgb_final, best_cat, result, path, remove_called>>

NextUnit ==
    \/ Construct
    \/ CallDistance
    \/ CallMatch

SpecUnit == InitUnit /\ [][NextUnit]_vars

(***************************************************************************)
(* Vocabulary of the properties                                            *)
(***************************************************************************)
Stage(k) == IF Len(path) >= k THEN path[k] ELSE "-"
Ran(stage) == \E k \in 1..Len(path) : path[k] = stage

CategoryIds == {config.color_categories[i].cid : i \in 1..Len(config.color_categories)}

\* the distance of the dominant colour c to the k-th (category, synonym) pair
PairDist(c, k) ==
    LET p == Pairs(config.color_categories)[k]
    IN  compute_weighted_distance(c, get_rgb_from_color_name(p.cname, config), p.cname)

\* cat owns the first pair, in table order, whose distance to c is minimal
OwnsFirstMinimum(cat, c) ==
    LET ps == Pairs(config.color_categories)
    IN  \E i \in 1..Len(ps) :
          /\ ps[i].cat = cat
          /\ \A j \in 1..Len(ps) : ~DistLess(PairDist(c, j), PairDist(c, i))
          /\ \A j \in 1..(i - 1) : DistLess(PairDist(c, i), PairDist(c, j))

Vivid(rgb) == HsvSaturation(rgb) > 70 /\ HsvValue(rgb) > 80
Neutral(name) == AnyKeyword(gray_keywords, name)
Warm(name) == AnyKeyword(red_keywords, name)

Sq(x) == x * x

(***************************************************************************)
(* C1: whatever goes wrong inside analyze (fetch failure, too few pixels,  *)
(* clustering failure, no category match), no exception reaches the        *)
(* caller, and a call that has returned returned N/A or "=<id>" with the   *)
(* id of a category of the table; a call passes through at most four       *)
(* stages.                                                                 *)
(***************************************************************************)
C1_NoFailurePropagates ==
    /\ pc # "raised"
    /\ Len(path) <= 4
    /\ pc = "returned" =>
         \/ result = NA
         \/ result.kind = "=id" /\ result.cid \in CategoryIds

\* a clustering failure (K larger than the sample) came back as N/A
C1_Witness ==
    /\ pc = "returned"
    /\ result = NA
    /\ path = <<"download", "standard", "kmeans">>
    /\ Len(filtered) >= MinPixels

C3_MatcherSeesRGB ==
    (pc \in {"clustering", "matching"} \/ Ran("kmeans")) =>
        /\ img.order = "RGB"
        /\ img.swaps = 1
        /\ (Ran("match") \/ pc = "matching") =>
              \A k \in 1..3 :
                 /\ rgb_final[k] >= Min3(img.truth_a[k], img.truth_b[k], img.truth_a[k])
                 /\ rgb_final[k] <= Max3(img.truth_a[k], img.truth_b[k], img.truth_a[k])

\* foreground-mask mode, a uniformly red picture: the matcher is handed (255,0,0)
C3_Witness ==
    /\ pc = "matching"
    /\ Stage(2) = "rembg"
    /\ img.truth_a = Red
    /\ img.truth_b = Red
    /\ rgb_final = Red

(***************************************************************************)
(* C4: compute_weighted_distance adds the penalty of 30 exactly when the   *)
(* pixel has S > 70 and V > 80 and the name contains a neutral keyword,    *)
(* and adds nothing otherwise; so (255,0,0) is never matched to a category *)
(* whose synonyms are all neutral-named when another category has a warm,  *)
(* not neutral, synonym of reference (255,0,0).                            *)
(***************************************************************************)
C4_GrayPenalty ==
    /\ call.op = "compute_weighted_distance" =>
         call.dist.pen = IF Vivid(call.rgb) /\ Neutral(call.name) THEN 30 ELSE 0
    /\ (call.op = "match_color_to_category" /\ call.rgb = Red) =>
         \A r, b \in 1..Len(config.color_categories) :
            LET red   == config.color_categories[r]
                black == config.color_categories[b]
            IN  ( /\ \E k \in 1..Len(red.synonyms) :
                       /\ Warm(red.synonyms[k])
                       /\ ~Neutral(red.synonyms[k])
                       /\ get_rgb_from_color_name(red.synonyms[k], config) = Red
                  /\ \A k \in 1..Len(black.synonyms) : Neutral(black.synonyms[k]) )
                => call.cat # black.cat

\* a vivid pixel against a neutral name: the penalty is in the result
C4_Witness ==
    /\ call.op = "compute_weighted_distance"
    /\ call.rgb = <<81, 0, 0>>
    /\ call.name = Burakku
    /\ call.dist.pen = 30

(***************************************************************************)
(* C5: without penalty the result is sqrt((wR*dR)^2 + dG^2 + dB^2) with    *)
(* wR = 1.5 under a warm name and 1.0 otherwise (four times its square is  *)
(* 9 dR^2 + 4 dG^2 + 4 dB^2, resp. 4 dR^2 + 4 dG^2 + 4 dB^2); (245,0,0)    *)
(* against (255,0,0) gives 15.0 under a warm name and 10.0 otherwise.      *)
(***************************************************************************)
C5_WeightedEuclid ==
    (call.op = "compute_weighted_distance" /\ ~(Vivid(call.rgb) /\ Neutral(call.name))) =>
        LET dR == call.rgb[1] - call.ref[1]
            dG == call.rgb[2] - call.ref[2]
            dB == call.rgb[3] - call.ref[3]
        IN  /\ call.dist.pen = 0
            /\ call.dist.q4 = (IF Warm(call.name) THEN 9 ELSE 4) * Sq(dR)
                              + 4 * Sq(dG) + 4 * Sq(dB)
            /\ (call.rgb = <<245, 0, 0>> /\ call.ref = Red) =>
                  call.dist.q4 = IF Warm(call.name) THEN Sq(2 * 15) ELSE Sq(2 * 10)

\* the test's case: (245,0,0) against (255,0,0) under the warm name: 15.0
C5_Witness ==
    /\ call.op = "compute_weighted_distance"
    /\ call.rgb = <<245, 0, 0>>
    /\ call.ref = Red
    /\ call.name = Reddo
    /\ call.dist = [inf |-> FALSE, q4 |-> 900, pen |-> 0]

(***************************************************************************)
(* C6, as claimed: the distance of a pixel to an identical reference is 0  *)
(* under every name.                                                       *)
(***************************************************************************)
C6_IdenticalIsZero ==
    (call.op = "compute_weighted_distance" /\ call.rgb = call.ref) =>
        call.dist.q4 = 0 /\ call.dist.pen = 0

(***************************************************************************)
(* C6, amended: the distance of a pixel to an identical reference is 0,    *)
(* except that it is 30 (the penalty alone) when the pixel has S > 70 and  *)
(* V > 80 and the name contains a neutral keyword.                         *)
(***************************************************************************)
C6_IdenticalIsZeroOrPenalty ==
    (call.op = "compute_weighted_distance" /\ call.rgb = call.ref) =>
        /\ call.dist.q4 = 0
        /\ call.dist.pen = IF Vivid(call.rgb) /\ Neutral(call.name) THEN 30 ELSE 0

\* identical vivid red under the name "black": the distance is 30
C6_Witness ==
    /\ call.op = "compute_weighted_distance"
    /\ call.rgb = Red
    /\ call.ref = Red
    /\ call.name = Burakku
    /\ call.dist = [inf |-> FALSE, q4 |-> 0, pen |-> 30]

(***************************************************************************)
(* C7: in both modes, once the sample has been counted, analyze has        *)
(* returned N/A without clustering or matching if and only if fewer than   *)
(* 10 pixels survived: 9 pixels give N/A, 10 proceed to clustering.        *)
(***************************************************************************)
C7_MinimumSample ==
    (Stage(2) \in {"rembg", "standard"} /\ pc # "preprocessed") =>
        /\ (Len(filtered) < 10) <=>
              (pc = "returned" /\ result = NA /\ ~Ran("kmeans") /\ ~Ran("match"))
        /\ Len(filtered) = 9 => (pc = "returned" /\ result = NA)
        /\ Len(filtered) = 10 => (pc = "clustering" \/ Ran("kmeans"))

\* a sample of exactly 10 pixels is at the clustering stage
C7_Witness ==
    /\ pc = "clustering"
    /\ Len(filtered) = 10
    /\ Stage(2) = "standard"

(***************************************************************************)
(* C8: in brightness-filter mode the sample holds exactly the pixels of    *)
(* the cropped region whose mean brightness is strictly between the two    *)
(* thresholds (defaults 20 and 230): a uniform (128,128,128) picture keeps *)
(* the whole region, a uniform (255,255,255) picture keeps nothing, and a  *)
(* pixel whose brightness equals a threshold is dropped.                   *)
(***************************************************************************)
C8_BrightnessFilter ==
    (pc = "preprocessed" /\ Stage(2) = "standard") =>
        LET lo  == Get(config.analysis, "pixel_filter_min", 20)
            hi  == Get(config.analysis, "pixel_filter_max", 230)
            c   == Center(img)
            pix == RegionPixels(img, c.top, c.left, c.rows, c.cols)
            Strict(p) == 3 * lo < p[1] + p[2] + p[3] /\ p[1] + p[2] + p[3] < 3 * hi
            defaults == lo = 20 /\ hi = 230
        IN  /\ \A v \in SampleValues(pix) \cup SampleValues(filtered) :
                  Count(filtered, v) = IF Strict(v) THEN Count(pix, v) ELSE 0
            /\ \A k \in 1..Len(filtered) :
                  /\ filtered[k][1] + filtered[k][2] + filtered[k][3] # 3 * lo
                  /\ filtered[k][1] + filtered[k][2] + filtered[k][3] # 3 * hi
            /\ (defaults /\ img.truth_a = Gray128 /\ img.truth_b = Gray128) =>
                  Len(filtered) = c.rows * c.cols
            /\ (defaults /\ img.truth_a = White /\ img.truth_b = White) =>
                  filtered = <<>>

\* a region holding pixels of brightness exactly 20 and pixels of brightness 128:
\* the former are dropped, the latter kept
C8_Witness ==
    /\ pc = "preprocessed"
    /\ Stage(2) = "standard"
    /\ img.truth_a = Lo60
    /\ img.truth_b = Gray128
    /\ Len(filtered) > 0
    /\ LET c == Center(img) IN Len(filtered) < c.rows * c.cols

(***************************************************************************)
(* C9: the mode is fixed at construction: after it, self.use_rembg is      *)
(* the configured value if rembg is available and False if it is not, in   *)
(* every state; with rembg unavailable every call takes the standard flow  *)
(* and remove() is never invoked.                                          *)
(***************************************************************************)
C9_ModeFixedAtConstruction ==
    pc # "new" =>
        /\ use_rembg = (Get(config.analysis, "use_rembg", FALSE) /\ REMBG_AVAILABLE)
        /\ ~REMBG_AVAILABLE => (~use_rembg /\ ~remove_called /\ ~Ran("rembg"))
        /\ Len(path) >= 2 => Stage(2) = IF use_rembg THEN "rembg" ELSE "standard"

\* rembg configured but unavailable: a call went through the standard flow
C9_Witness ==
    /\ ~REMBG_AVAILABLE
    /\ Get(config.analysis, "use_rembg", FALSE)
    /\ pc = "returned"
    /\ Stage(2) = "standard"
    /\ ~remove_called

(***************************************************************************)
(* C10, as claimed: an analyzer whose table has no category with at least  *)
(* one synonym is never constructed (construction fails, so the analyzer   *)
(* never leaves the state before construction).                            *)
(***************************************************************************)
C10_ConstructionValidatesTable ==
    Pairs(config.color_categories) = <<>> => pc = "new"

(***************************************************************************)
(* SheetManager.process_products (src/src/sheets.py).  A cell is the       *)
(* sequence of its characters; IDSP is the full-width space U+3000.        *)
(* sheet.rows are the data rows (data[1:]), sheet.headers is row 1;        *)
(* sheet.mapping are the data rows of the colour-mapping sheet.            *)
(***************************************************************************)
MaxRows == 2

IDSP       == "IDSP"
Whitespace == {" ", IDSP}
Empty      == <<>>
NAcell     == <<"N", "/", "A">>
NoneCell   == <<"<None>">>      \* Python's None where a string is expected

\* str.strip()
RECURSIVE LStrip(_)
LStrip(s) == IF s # <<>> /\ Head(s) \in Whitespace THEN LStrip(Tail(s)) ELSE s

RECURSIVE RStrip(_)
RStrip(s) ==
    IF s # <<>> /\ s[Len(s)] \in Whitespace THEN RStrip(SubSeq(s, 1, Len(s) - 1)) ELSE s

Strip(s) == RStrip(LStrip(s))

\* str.lower(), character by character
LowerChar(c) == IF c = "M" THEN "m" ELSE c
Lower(s) == [k \in 1..Len(s) |-> LowerChar(s[k])]

\* utils.extract_color_from_product_name: split("　", 1)
extract_color_from_product_name(product_name) ==
    IF \E k \in 1..Len(product_name) : product_name[k] = IDSP
    THEN LET k == CHOOSE j \in 1..Len(product_name) :
                    /\ product_name[j] = IDSP
                    /\ \A m \in 1..(j - 1) : product_name[m] # IDSP
         IN  Strip(SubSeq(product_name, k + 1, Len(product_name)))
    ELSE Empty

\* SheetManager.check_predefined_synonym: the cid of the first category that
\* lists the text among its synonyms, 0 (None) when there is none
RECURSIVE FirstSynonymOwner(_, _)
FirstSynonymOwner(color_categories, text) ==
    IF color_categories = <<>> THEN 0
    ELSE LET e == Head(color_categories)
         IN  IF \E k \in 1..Len(e.synonyms) : e.synonyms[k] = text
             THEN e.cid
             ELSE FirstSynonymOwner(Tail(color_categories), text)

check_predefined_synonym(color_name_raw, cfg) ==
    FirstSynonymOwner(cfg.color_categories, Strip(color_name_raw))

\* SheetManager.load_color_mapping: later rows overwrite earlier ones
RECURSIVE MappingGet(_, _)
MappingGet(mapping_rows, key) ==
    IF mapping_rows = <<>> THEN NoneCell
    ELSE LET row == mapping_rows[Len(mapping_rows)]
             rest == SubSeq(mapping_rows, 1, Len(mapping_rows) - 1)
         IN  IF /\ Len(row) >= 3
                /\ Lower(Strip(row[1])) # Empty
                /\ Lower(Strip(row[1])) = key
             THEN Strip(row[3])
             ELSE MappingGet(rest, key)

\* SheetManager.append_color_mapping_batch: the names appended
NewMappingEntries(new_colors, mapping_rows) ==
    LET existing == {Strip(mapping_rows[k][1]) :
                       k \in {j \in 1..Len(mapping_rows) :
                                 mapping_rows[j] # <<>> /\ mapping_rows[j][1] # Empty}}
    IN  {Strip(c) : c \in {x \in new_colors : Strip(x) # Empty /\ Strip(x) \notin existing}}

\* config["sheets"]["columns"]
Columns == [color_id |-> "Color ID", image_url |-> "Image URL",
            product_name |-> "Product Name"]

\* headers.index(name), 0-based; -1 stands for ValueError
Index(headers, name) ==
    IF \E k \in 1..Len(headers) : headers[k] = name
    THEN (CHOOSE k \in 1..Len(headers) :
             headers[k] = name /\ \A m \in 1..(k - 1) : headers[m] # name) - 1
    ELSE -1

color_id_col_idx(headers)     == Index(headers, Columns.color_id)
image_url_col_idx(headers)    == Index(headers, Columns.image_url)
product_name_col_idx(headers) == Index(headers, Columns.product_name)
max_colidx(headers) ==
    Max3(color_id_col_idx(headers), image_url_col_idx(headers),
         product_name_col_idx(headers))

\* f"={cid}" for an integer and for a string cid
FmtInt(cid)  == <<"=", ToString(cid)>>
FmtCell(cid) == <<"=">> \o cid

\* what analyzer.analyze may return (N/A or "=<id>" of a category)
AnalyzeReturns(cfg) ==
    {NAcell} \cup {FmtInt(cfg.color_categories[k].cid) :
                      k \in 1..Len(cfg.color_categories)}

\* lines 105-136: the value of a row without an ID, given what analyze
\* returns if it is called: [new_val, analyzed, pending]
ComputeRow(row, headers, mapping_rows, cfg, analysis) ==
    LET product_name == Strip(row[product_name_col_idx(headers) + 1])
        image_url    == Strip(row[image_url_col_idx(headers) + 1])
        raw_color    == extract_color_from_product_name(product_name)
        color_key    == Strip(Lower(raw_color))
        predef_id    == IF raw_color # Empty
                        THEN check_predefined_synonym(raw_color, cfg) ELSE 0
        cid          == MappingGet(mapping_rows, color_key)
        by_image     == IF image_url # Empty THEN analysis ELSE NAcell
        called       == image_url # Empty
    IN  IF predef_id # 0
        THEN [new_val |-> FmtInt(predef_id), analyzed |-> FALSE, pending |-> {}]
        ELSE IF color_key # Empty
             THEN IF cid # NoneCell /\ cid # Empty /\ cid # NAcell
                  THEN [new_val |-> FmtCell(cid), analyzed |-> FALSE, pending |-> {}]
                  ELSE IF cid = Empty \/ cid = NAcell
                       THEN [new_val |-> by_image, analyzed |-> called, pending |-> {}]
                       ELSE [new_val |-> by_image, analyzed |-> called,
                             pending |-> {raw_color}]
             ELSE [new_val |-> by_image, analyzed |-> called, pending |-> {}]

(***************************************************************************)
(* Inputs: the product sheet and the colour-mapping sheet                  *)
(***************************************************************************)
HeaderRows ==
    { <<"Product Name", "Image URL", "Color ID">>,
      <<"Color ID", "Product Name", "Image URL">>,
      <<"Product Name", "Image URL">> }

Fields ==
    { [id |-> <<"5">>,           name |-> <<"T">>,                  url |-> <<"u">>],
      [id |-> <<" ", "5", " ">>, name |-> <<"T">>,                  url |-> <<"u">>],
      [id |-> NAcell,            name |-> <<"T">>,                  url |-> Empty],
      [id |-> Empty,             name |-> <<"T">>,                  url |-> <<"u">>],
      [id |-> Empty,             name |-> <<"T", IDSP>> \o Reddo,   url |-> <<"u">>],
      [id |-> Empty,             name |-> <<"T", IDSP, "M">>,       url |-> <<"u">>],
      [id |-> <<" ">>,           name |-> <<"T", IDSP, "e">>,       url |-> <<"u">>],
      [id |-> Empty,             name |-> <<"T", IDSP, "x">>,       url |-> <<"u">>] }

Layout(headers, f) ==
    [k \in 1..Len(headers) |->
        IF headers[k] = Columns.color_id THEN f.id
        ELSE IF headers[k] = Columns.product_name THEN f.name
        ELSE f.url]

\* rows of full length and rows cut after their first cell
RowsFor(headers) ==
    {Layout(headers, f) : f \in Fields}
    \cup {SubSeq(Layout(headers, f), 1, 1) : f \in Fields}

RECURSIVE RowSeqs(_, _)
RowSeqs(headers, n) ==
    IF n = 0 THEN {<<>>}
    ELSE LET shorter == RowSeqs(headers, n - 1)
         IN  shorter \cup {Append(rs, r) :
                              rs \in {x \in shorter : Len(x) = n - 1},
                              r \in RowsFor(headers)}

MappingRows ==
    << <<<<"m">>, Empty, <<"9">>>>,
       <<<<"e">>, Empty, Empty>> >>

SheetConfig ==
    [color_categories |-> TableFull, color_definitions |-> ColorDefinitions,
     analysis |-> [resize_width |-> MaxSide, resize_height |-> MaxSide]]

InitSheet ==
    /\ REMBG_AVAILABLE = FALSE
    /\ config = SheetConfig
    /\ use_rembg = FALSE
    /\ pc = "ready"
    /\ img = NoImg
    /\ filtered = <<>>
    /\ rgb_final = Black
    /\ best_cat = "None"
    /\ result = Pending
    /\ path = <<>>
    /\ remove_called = FALSE
    /\ call = NoCall
    /\ \E headers \in HeaderRows :
         \E rows \in RowSeqs(headers, MaxRows) :
            sheet = [NoSheet EXCEPT !.pc = "start", !.headers = headers,
                                    !.rows = rows, !.mapping = MappingRows]

\* lines 71-90: the header lookup; a missing column ends the run
ReadHeaders ==
    /\ sheet.pc = "start"
    /\ sheet' = IF \/ color_id_col_idx(sheet.headers) < 0
                   \/ image_url_col_idx(sheet.headers) < 0
                   \/ product_name_col_idx(sheet.headers) < 0
                THEN [sheet EXCEPT !.pc = "returned"]
                ELSE [sheet EXCEPT !.pc = "loop", !.i = 1]
    /\ UNCHANGED analyzerVars

\* lines 94-96: a row too short for the three columns
RowShort ==
    /\ sheet.pc = "loop"
    /\ sheet.i <= Len(sheet.rows)
    /\ Len(sheet.rows[sheet.i]) <= max_colidx(sheet.headers)
    /\ sheet' = [sheet EXCEPT !.updated_values = Append(@, NAcell), !.i = @ + 1]
    /\ UNCHANGED analyzerVars

\* lines 98-103: the row has an ID already
RowKeep ==
    /\ sheet.pc = "loop"
    /\ sheet.i <= Len(sheet.rows)
    /\ Len(sheet.rows[sheet.i]) > max_colidx(sheet.headers)
    /\ LET existing_id == Strip(sheet.rows[sheet.i][color_id_col_idx(sheet.headers) + 1])
       IN  /\ existing_id \notin {Empty, NAcell}
           /\ sheet' = [sheet EXCEPT !.updated_values = Append(@, existing_id),
                                     !.i = @ + 1]
    /\ UNCHANGED analyzerVars

\* lines 105-138: the row gets a value from its name or from its image
RowCompute ==
    /\ sheet.pc = "loop"
    /\ sheet.i <= Len(sheet.rows)
    /\ Len(sheet.rows[sheet.i]) > max_colidx(sheet.headers)
    /\ Strip(sheet.rows[sheet.i][color_id_col_idx(sheet.headers) + 1]) \in {Empty, NAcell}
    /\ \E analysis \in AnalyzeReturns(config) :
         LET c == ComputeRow(sheet.rows[sheet.i], sheet.headers, sheet.mapping,
                             config, analysis)
         IN  sheet' = [sheet EXCEPT
                          !.updated_values = Append(@, c.new_val),
                          !.pending_colors = @ \cup c.pending,
                          !.analyzed = IF c.analyzed THEN @ \cup {sheet.i} ELSE @,
                          !.i = @ + 1]
    /\ UNCHANGED analyzerVars

\* lines 142-157: the two bulk updates, the column from row 2 on
BulkUpdate ==
    /\ sheet.pc = "loop"
    /\ sheet.i > Len(sheet.rows)
    /\ sheet' = [sheet EXCEPT
                    !.pc = "done",
                    !.appended = NewMappingEntries(sheet.pending_colors, sheet.mapping),
                    !.range = <<2, Len(sheet.updated_values) + 1>>,
                    !.written = sheet.updated_values]
    /\ UNCHANGED analyzerVars

NextSheet ==
    \/ ReadHeaders
    \/ RowShort
    \/ RowKeep
    \/ RowCompute
    \/ BulkUpdate

SpecSheet == InitSheet /\ [][NextSheet]_vars

(***************************************************************************)
(* C11, as claimed: when process_products has written the column, every    *)
(* data row (of any length) whose color-ID cell holds a value other than   *)
(* empty or "N/A" got that value written back (surrounding blanks apart)   *)
(* and analyze was not invoked for it; and the column written has one      *)
(* entry per data row, in row order, starting at sheet row 2.              *)
(***************************************************************************)
HasId(row, headers) ==
    /\ Len(row) > color_id_col_idx(headers)
    /\ Strip(row[color_id_col_idx(headers) + 1]) \notin {Empty, NAcell}

C11_ExistingIdsKeptInFullRows ==
    sheet.pc = "done" =>
        /\ Len(sheet.written) = Len(sheet.rows)
        /\ sheet.range = <<2, Len(sheet.rows) + 1>>
        /\ \A k \in 1..Len(sheet.rows) :
              (HasId(sheet.rows[k], sheet.headers)
                 /\ Len(sheet.rows[k]) > max_colidx(sheet.headers)) =>
                 /\ sheet.written[k] = Strip(sheet.rows[k][color_id_col_idx(sheet.headers) + 1])
                 /\ k \notin sheet.analyzed
====
